---- MODULE Spec2Model ----
(***************************************************************************)
(* Model of the `files` tool (src/src/files.rs): a recursive directory     *)
(* walker whose worker threads send fs::DirEntry values over a bounded     *)
(* mpsc::sync_channel to the main thread, which filters them by a match    *)
(* pattern, truncates after max_items and prints them.                     *)
(*                                                                         *)
(* A file name is a sequence of one-character strings, a path is a         *)
(* sequence of file names, an Option is a sequence of length 0 or 1.       *)
(*                                                                         *)
(* The module also models the `jsonargs` tool (src/src/main.rs), which     *)
(* starts one child process per line of its standard input. The two        *)
(* programs have a specification each (Spec, JsonargsSpec); the variables  *)
(* of the program a specification is not about stay at rest.               *)
(***************************************************************************)
EXTENDS Integers, Sequences, FiniteSets, TLC

\* ------------------------------------------------------------------ bounds
\* the finite non-zero --max-items value tried (next to 0 and no limit)
MaxLimit == 1
\* largest position in a listing at which the listing may fail
MaxFailIdx == 1
\* largest number of lines on the standard input of jsonargs
MaxLines == 3
\* number of plain files in the root of the wide tree
WideFiles == 21

\* ------------------------------------------------------- program constants
\* mpsc::sync_channel(20)
ChanCap == 20
\* usize::max_value() (the default of max_items), cut to the range of
\* TLC's integers; it is larger than any number of entries of a tree here
usize_max == 2147483647

\* ------------------------------------------------------------------- names
n_git == <<".", "g", "i", "t">>
n_hg == <<".", "h", "g">>
n_svn == <<".", "s", "v", "n">>
n_darcs == <<"_", "d", "a", "r", "c", "s">>
n_bzr == <<".", "b", "z", "r">>
n_txt == <<".", "t", "x", "t">>
n_a_txt == <<"a">> \o n_txt
n_b_txt == <<"b">> \o n_txt
n_d_txt == <<"d">> \o n_txt
n_config == <<"c", "o", "n", "f", "i", "g">>
n_sub == <<"s", "u", "b">>
n_proj == <<"p", "r", "o", "j">>

Digit(k) == <<"0", "1", "2", "3", "4", "5", "6", "7", "8", "9">>[k + 1]
\* the i-th plain file of the wide tree: f01, f02, ...
WideName(i) == <<"f", Digit(i \div 10), Digit(i % 10)>>

\* ------------------------------------------------------------------ regex
\* A compiled regex of the shape ^?(lit|lit|...)$? : the shape of the
\* built-in ignore pattern and of the match patterns used here.
\* regex::Regex::is_match is an unanchored search.
regex_is_match(re, s) ==
  \E lit \in re.alts :
    \E i \in 0..(Len(s) - Len(lit)) :
      /\ SubSeq(s, i + 1, i + Len(lit)) = lit
      /\ re.anchor_start => i = 0
      /\ re.anchor_end => i + Len(lit) = Len(s)

\* r#"^(\.git|\.hg|\.svn|_darcs|\.bzr)$"#
DefaultIgnore ==
  [anchor_start |-> TRUE, anchor_end |-> TRUE,
   alts |-> {n_git, n_hg, n_svn, n_darcs, n_bzr}]

\* \.txt$
TxtPattern == [anchor_start |-> FALSE, anchor_end |-> TRUE, alts |-> {n_txt}]

None == <<>>
Some(x) == <<x>>

\* Path::file_name(): the last component, None for the filesystem root "/"
file_name(entry) == IF entry = <<>> THEN None ELSE Some(entry[Len(entry)])

\* is_match panics (file_name().unwrap()) exactly when a pattern is set and
\* the path has no last component
is_match_panics(entry, pattern) == pattern /= None /\ file_name(entry) = None

is_match(entry, pattern) ==
  IF pattern = None
  THEN FALSE
  ELSE regex_is_match(pattern[1], file_name(entry)[1])

\* Path::strip_prefix: Some(rest) if base is a prefix of path, else None
strip_prefix(path, base) ==
  IF Len(base) <= Len(path) /\ SubSeq(path, 1, Len(base)) = base
  THEN Some(SubSeq(path, Len(base) + 1, Len(path)))
  ELSE None

\* ------------------------------------------------------------- file trees
\* A tree gives, relative to the traversal root, the set of directories
\* and for each directory its listing (child names in listing order).
ScenarioTree ==
  [dirs |-> {<<>>, <<n_git>>, <<n_sub>>},
   list |-> (<<>> :> <<n_a_txt, n_git, n_sub>>) @@
            (<<n_git>> :> <<n_config>>) @@
            (<<n_sub>> :> <<n_b_txt>>)]

\* an ignored directory below the root's children, holding a .txt file;
\* an empty directory whose own name ends in .txt
NestedTree ==
  [dirs |-> {<<>>, <<n_sub>>, <<n_sub, n_git>>, <<n_d_txt>>},
   list |-> (<<>> :> <<n_sub, n_d_txt>>) @@
            (<<n_sub>> :> <<n_git, n_b_txt>>) @@
            (<<n_sub, n_git>> :> <<n_a_txt>>) @@
            (<<n_d_txt>> :> <<>>)]

\* more plain files in one directory than the channel buffers, and a
\* subdirectory late in the listing: two threads send into the full buffer
WideTree ==
  [dirs |-> {<<>>, <<n_sub>>},
   list |-> (<<>> :> ([i \in 1..(WideFiles - 1) |-> WideName(i)] \o
                      <<n_sub, WideName(WideFiles)>>)) @@
            (<<n_sub>> :> <<n_b_txt>>)]

Trees == {ScenarioTree, NestedTree, WideTree}

\* env::current_dir(): a project directory, or a directory that is itself
\* named like a VCS directory. The traversal root always has a last
\* component here: the filesystem root "/" is not among the roots tried.
Roots == {<<n_proj>>, <<n_proj, n_git>>}

IgnoreOptions == {None, Some(DefaultIgnore)}
MatchOptions == {None, Some(TxtPattern)}
LimitOptions == {0, MaxLimit, usize_max}

Min(a, b) == IF a <= b THEN a ELSE b

\* the positions at which the listing of a directory may fail:
\* 0 is read_dir itself, k >= 1 is the k-th item of the iterator
FailPoints(tree, d) == 0..Min(Len(tree.list[d]), MaxFailIdx)

\* failAt: for each directory None (its listing does not fail) or
\* Some(position at which it fails); the listing of at most one directory
\* of the tree fails
FailMaps(tree) ==
  {[d \in tree.dirs |-> None]} \cup
  UNION {{[d \in tree.dirs |-> IF d = D THEN Some(k) ELSE None] :
          k \in FailPoints(tree, D)} : D \in tree.dirs}

\* ------------------------------------------------------------------ state
\* the Cli struct: matchre, ignore, is_async, is_directory, is_absolute,
\* max_items
VARIABLE cli
\* the filesystem: root, dirs, list, failAt
VARIABLE fs
\* main thread: "start", "loop", "done", "error", "exited"
VARIABLE pc
\* process exit status: "running", "success", "failure"
VARIABLE status
\* entries buffered in the sync_channel
VARIABLE chan
\* number of live SyncSender handles
VARIABLE senders
\* the Receiver exists (created and not dropped)
VARIABLE rx_alive
\* worker threads: directory the thread was started on -> [stack, res]
VARIABLE tasks
\* items yielded so far by take(max_items)
VARIABLE taken
\* lines printed
VARIABLE stdout
\* history: entries printed, in order
VARIABLE emitted
\* history: entries sent on the channel, in order
VARIABLE sent
\* history: directories whose read_dir succeeded
VARIABLE listed
\* history: directories whose listing returned an error
VARIABLE failed


\* jsonargs: the --parallel flag
VARIABLE parallel
\* jsonargs: the lines of the standard input, each "json" (decodes and
\* renders) or "malformed" (a read, decode or render error)
VARIABLE stdin
\* jsonargs: number of lines read
VARIABLE line_no
\* jsonargs: the child processes started, in order: [line, st], st is
\* "running" or "exited"
VARIABLE children
\* jsonargs: the Vec of JoinHandles: [child, st], st is "waiting" (in
\* child.wait()) or "returned"
VARIABLE childs
\* jsonargs: number of handles joined
VARIABLE joined
\* jsonargs main: "read", "wait", "join", "finished", "panicked"
VARIABLE main_pc

files_vars == <<cli, fs, pc, status, chan, senders, rx_alive, tasks, taken,
                stdout, emitted, sent, listed, failed>>

jsonargs_vars == <<parallel, stdin, line_no, children, childs, joined,
                   main_pc>>

vars == <<cli, fs, pc, status, chan, senders, rx_alive, tasks, taken,
          stdout, emitted, sent, listed, failed, parallel, stdin, line_no,
          children, childs, joined, main_pc>>

\* jsonargs is not running
jsonargs_at_rest ==
  /\ parallel = FALSE
  /\ stdin = <<>>
  /\ line_no = 0
  /\ children = <<>>
  /\ childs = <<>>
  /\ joined = 0
  /\ main_pc = "finished"

\* ---------------------------------------------------------- the filesystem
rel(path) == strip_prefix(path, fs.root)[1]

\* Path::is_dir()
is_dir_path(path) == rel(path) \in fs.dirs

\* the listing of a directory, as names
read_dir(path) == fs.list[rel(path)]

Init ==
  /\ \E tree \in Trees, root \in Roots :
       \E fa \in FailMaps(tree) :
         fs = [root |-> root, dirs |-> tree.dirs, list |-> tree.list,
               failAt |-> fa]
  /\ \E m \in MatchOptions, ig \in IgnoreOptions, a \in BOOLEAN,
        d \in BOOLEAN, ab \in BOOLEAN, n \in LimitOptions :
       cli = [matchre |-> m, ignore |-> ig, is_async |-> a,
              is_directory |-> d, is_absolute |-> ab, max_items |-> n]
  /\ pc = "start"
  /\ status = "running"
  /\ chan = <<>>
  /\ senders = 0
  /\ rx_alive = FALSE
  /\ tasks = <<>>
  /\ taken = 0
  /\ stdout = <<>>
  /\ emitted = <<>>
  /\ sent = <<>>
  /\ listed = {}
  /\ failed = {}
  /\ jsonargs_at_rest

\* ------------------------------------------------------- worker threads
Stack(t) == tasks[t].stack
Top(t) == Stack(t)[Len(Stack(t))]
Running(t) == t \in DOMAIN tasks /\ tasks[t].res = "running"
\* threads run until the process exits
ProcessAlive == pc /= "exited"

\* the listing walked from its last item to its first
ChildName_reversed(t) ==
  read_dir(Top(t).dir)[Len(read_dir(Top(t).dir)) - Top(t).idx + 1]

\* the child the loop of the top frame is at
ChildName(t) == read_dir(Top(t).dir)[Top(t).idx]
ChildPath(t) == Append(Top(t).dir, ChildName(t))

NewFrame(path) == [dir |-> path, idx |-> 0, ph |-> "enter"]
NewTask(path) == [stack |-> <<NewFrame(path)>>, res |-> "running"]

SetTop(t, f) == [tasks EXCEPT ![t].stack[Len(Stack(t))] = f]

\* SyncSender handles owned by thread t: the tx parameter of each
\* files_inner frame, and the clone made for a directory child that has
\* not yet been handed to the recursion
Handles(t) ==
  Len(Stack(t)) + (IF Stack(t) /= <<>> /\ Top(t).ph = "cloned" THEN 1 ELSE 0)

\* files_inner returns Ok(()): its tx is dropped, the caller (if any)
\* goes on with its loop
ReturnOk(t) ==
  /\ tasks' = [tasks EXCEPT
       ![t] = [stack |-> SubSeq(Stack(t), 1, Len(Stack(t)) - 1),
               res |-> IF Len(Stack(t)) = 1 THEN "ok" ELSE "running"]]
  /\ senders' = senders - 1

\* the thread ends but its sender handles are never released
Unwind_leak(t, r) ==
  /\ tasks' = [tasks EXCEPT ![t] = [stack |-> <<>>, res |-> r]]
  /\ senders' = senders

\* the thread ends with every frame unwound: an Err propagated by `?`
\* through the synchronous recursion, or a panic
Unwind(t, r) ==
  /\ tasks' = [tasks EXCEPT ![t] = [stack |-> <<>>, res |-> r]]
  /\ senders' = senders - Handles(t)

\* the `?` of lines 145, 146, 164 lost: the error ends only the innermost
\* call and the caller goes on with its loop
ReturnErr_swallowed(t) == ReturnOk(t)

\* an error in one thread brings every worker thread down
ReturnErr_kills_all(t) ==
  /\ tasks' = [x \in DOMAIN tasks |-> [stack |-> <<>>, res |-> "panic"]]
  /\ senders' = 0

\* files_inner returns Err: the thread started by files() drops the
\* Result, a thread spawned by files_inner unwraps it and panics
ReturnErr(t) == Unwind(t, IF t = fs.root THEN "err" ELSE "panic")

\* the ignore check of line 141 left out
pruned_never(entry) == FALSE

\* the ignore check applied to children only, not to the traversal root
pruned_children_only(entry) == entry /= fs.root /\ is_match(entry, cli.ignore)

\* line 141: the directory handed to files_inner is pruned
pruned(entry) == is_match(entry, cli.ignore)

\* line 148 with the negation of is_dir lost
emits_file_inverted(entry) == cli.is_directory /\ ~is_match(entry, cli.ignore)

\* line 148: a non-directory child is sent
emits_file(entry) == ~cli.is_directory /\ ~is_match(entry, cli.ignore)

\* line 157 without the test of is_dir: every directory child is sent
emits_dir_always(entry) == TRUE

\* line 157: a directory child is sent
emits_dir(entry) == cli.is_directory

\* a channel without a bound (mpsc::channel instead of sync_channel)
CanSend_unbounded == rx_alive

\* SyncSender::send can complete: the receiver exists and the buffer has room
CanSend == rx_alive /\ Len(chan) < ChanCap

Send(entry) ==
  /\ chan' = Append(chan, entry)
  /\ sent' = Append(sent, entry)

\* lines 141-145: the ignore check of the directory itself, then read_dir
files_inner_enter(t) ==
  /\ ProcessAlive /\ Running(t) /\ Top(t).ph = "enter"
  /\ LET dir == Top(t).dir IN
       IF is_match_panics(dir, cli.ignore)
       THEN Unwind(t, "panic") /\ UNCHANGED <<listed, failed>>
       ELSE IF pruned(dir)
       THEN ReturnOk(t) /\ UNCHANGED <<listed, failed>>
       ELSE IF fs.failAt[rel(dir)] = Some(0)
       THEN /\ ReturnErr(t)
            /\ failed' = failed \cup {dir}
            /\ UNCHANGED listed
       ELSE /\ tasks' = SetTop(t, [Top(t) EXCEPT !.ph = "iter", !.idx = 1])
            /\ listed' = listed \cup {dir}
            /\ UNCHANGED <<senders, failed>>
  /\ UNCHANGED jsonargs_vars
  /\ UNCHANGED <<cli, fs, pc, status, chan, rx_alive, taken, stdout,
                 emitted, sent>>

\* the loop of the top frame is at a child that the listing yields
AtChild(t) ==
  /\ ProcessAlive /\ Running(t) /\ Top(t).ph = "iter"
  /\ Top(t).idx <= Len(read_dir(Top(t).dir))
  /\ fs.failAt[rel(Top(t).dir)] /= Some(Top(t).idx)

\* lines 167-169: the listing is exhausted
loop_end(t) ==
  /\ ProcessAlive /\ Running(t) /\ Top(t).ph = "iter"
  /\ Top(t).idx > Len(read_dir(Top(t).dir))
  /\ ReturnOk(t)
  /\ UNCHANGED jsonargs_vars
  /\ UNCHANGED <<cli, fs, pc, status, chan, rx_alive, taken, stdout,
                 emitted, sent, listed, failed>>

\* line 146: the listing yields an error for this item
entry_error(t) ==
  /\ ProcessAlive /\ Running(t) /\ Top(t).ph = "iter"
  /\ Top(t).idx <= Len(read_dir(Top(t).dir))
  /\ fs.failAt[rel(Top(t).dir)] = Some(Top(t).idx)
  /\ ReturnErr(t)
  /\ failed' = failed \cup {Top(t).dir}
  /\ UNCHANGED jsonargs_vars
  /\ UNCHANGED <<cli, fs, pc, status, chan, rx_alive, taken, stdout,
                 emitted, sent, listed>>

\* lines 147-150: a non-directory child
visit_file(t) ==
  /\ AtChild(t)
  /\ ~is_dir_path(ChildPath(t))
  /\ IF emits_file(ChildPath(t))
     THEN CanSend /\ Send(ChildPath(t))
     ELSE UNCHANGED <<chan, sent>>
  /\ tasks' = SetTop(t, [Top(t) EXCEPT !.idx = @ + 1])
  /\ UNCHANGED jsonargs_vars
  /\ UNCHANGED <<cli, fs, pc, status, senders, rx_alive, taken, stdout,
                 emitted, listed, failed>>

\* line 154 left out: the child is handed the parent's own handle
clone_tx_no_clone(t) ==
  /\ AtChild(t)
  /\ is_dir_path(ChildPath(t))
  /\ tasks' = SetTop(t, [Top(t) EXCEPT !.ph = "cloned"])
  /\ UNCHANGED jsonargs_vars
  /\ UNCHANGED <<cli, fs, pc, status, chan, senders, rx_alive, taken, stdout,
                 emitted, sent, listed, failed>>

\* lines 152-155: a directory child: the sender is cloned for it
clone_tx(t) ==
  /\ AtChild(t)
  /\ is_dir_path(ChildPath(t))
  /\ tasks' = SetTop(t, [Top(t) EXCEPT !.ph = "cloned"])
  /\ senders' = senders + 1
  /\ UNCHANGED jsonargs_vars
  /\ UNCHANGED <<cli, fs, pc, status, chan, rx_alive, taken, stdout,
                 emitted, sent, listed, failed>>

\* lines 161-165 where asynchronous mode starts no thread for the child
recurse_no_spawn(t, path) ==
  LET next == [Top(t) EXCEPT !.ph = "iter", !.idx = @ + 1] IN
  IF cli.is_async
  THEN tasks' = SetTop(t, next)
  ELSE tasks' = [tasks EXCEPT
         ![t].stack = Append(SubSeq(Stack(t), 1, Len(Stack(t)) - 1) \o
                             <<next>>, NewFrame(path))]

\* lines 161-165 with the test of is_async lost: a thread for every
\* directory child in both modes
recurse_always_spawn(t, path) ==
  LET next == [Top(t) EXCEPT !.ph = "iter", !.idx = @ + 1] IN
  tasks' = (SetTop(t, next) @@ (path :> NewTask(path)))

\* lines 161-165: the clone moves into a new thread, or into a recursive
\* call on this thread's stack; the loop goes on with the next child
recurse(t, path) ==
  LET next == [Top(t) EXCEPT !.ph = "iter", !.idx = @ + 1] IN
  IF cli.is_async
  THEN tasks' = (SetTop(t, next) @@ (path :> NewTask(path)))
  ELSE tasks' = [tasks EXCEPT
         ![t].stack = Append(SubSeq(Stack(t), 1, Len(Stack(t)) - 1) \o
                             <<next>>, NewFrame(path))]

\* lines 157-165: the directory child is sent in directories-only mode,
\* then recursed into
emit_dir_and_recurse(t) ==
  /\ ProcessAlive /\ Running(t) /\ Top(t).ph = "cloned"
  /\ IF emits_dir(ChildPath(t))
     THEN CanSend /\ Send(ChildPath(t))
     ELSE UNCHANGED <<chan, sent>>
  /\ recurse(t, ChildPath(t))
  /\ UNCHANGED jsonargs_vars
  /\ UNCHANGED <<cli, fs, pc, status, senders, rx_alive, taken, stdout,
                 emitted, listed, failed>>

\* the thread is at a tx.send(entry)
AtSend(t) ==
  /\ Running(t)
  /\ \/ /\ Top(t).ph = "iter"
        /\ Top(t).idx <= Len(read_dir(Top(t).dir))
        /\ fs.failAt[rel(Top(t).dir)] /= Some(Top(t).idx)
        /\ ~is_dir_path(ChildPath(t))
        /\ emits_file(ChildPath(t))
     \/ /\ Top(t).ph = "cloned"
        /\ emits_dir(ChildPath(t))

\* lines 149, 158: send returns Err once the receiver is dropped, and
\* unwrap() panics
send_disconnected(t) ==
  /\ ProcessAlive /\ AtSend(t)
  /\ pc /= "start" /\ ~rx_alive
  /\ Unwind(t, "panic")
  /\ UNCHANGED jsonargs_vars
  /\ UNCHANGED <<cli, fs, pc, status, chan, rx_alive, taken, stdout,
                 emitted, sent, listed, failed>>

\* lines 135-170 as a function: the entries one synchronous traversal of
\* dir sends, in order, when no listing fails
RECURSIVE Walk(_)
RECURSIVE WalkFrom(_, _)
Walk(dir) == IF pruned(dir) THEN <<>> ELSE WalkFrom(dir, 1)

\* lines 145-167: the loop over the listing of dir, from its i-th item on
WalkFrom(dir, i) ==
  IF i > Len(read_dir(dir))
  THEN <<>>
  ELSE LET child == Append(dir, read_dir(dir)[i]) IN
       (IF ~is_dir_path(child)
        THEN (IF emits_file(child) THEN <<child>> ELSE <<>>)
        ELSE (IF emits_dir(child) THEN <<child>> ELSE <<>>) \o Walk(child))
       \o WalkFrom(dir, i + 1)

\* each step of files_inner, taken by any worker thread
Enter == \E t \in DOMAIN tasks : files_inner_enter(t)
LoopEnd == \E t \in DOMAIN tasks : loop_end(t)
EntryError == \E t \in DOMAIN tasks : entry_error(t)
VisitFile == \E t \in DOMAIN tasks : visit_file(t)
CloneTx == \E t \in DOMAIN tasks : clone_tx(t)
EmitDirAndRecurse == \E t \in DOMAIN tasks : emit_dir_and_recurse(t)
SendDisconnected == \E t \in DOMAIN tasks : send_disconnected(t)

Producers ==
  \/ Enter
  \/ LoopEnd
  \/ EntryError
  \/ VisitFile
  \/ CloneTx
  \/ EmitDirAndRecurse
  \/ SendDisconnected

\* ------------------------------------------------------------ main thread
\* line 106 without the pattern test
filter_admits_all(entry) == TRUE

\* line 106: the filter closure
filter_admits(entry) == ~(cli.matchre /= None) \/ is_match(entry, cli.matchre)

\* take() without its count
take_unlimited == TRUE

\* take() that yields one item too many
take_off_by_one == taken <= cli.max_items

\* take(max_items) still yields
take_has_room == taken < cli.max_items

\* lines 109-116: the line printed for an entry, None if strip_prefix fails
render(entry) ==
  IF cli.is_absolute
  THEN Some(entry)
  ELSE IF strip_prefix(entry, fs.root) = None
       THEN None
       ELSE Some(<<<<".">>>> \o strip_prefix(entry, fs.root)[1])

\* lines 102-104, 123-133: current_dir, then files() makes the channel and
\* starts the worker thread on the root
run_start ==
  /\ pc = "start"
  /\ \E cwd_ok \in BOOLEAN :
       IF cwd_ok
       THEN /\ pc' = "loop"
            /\ rx_alive' = TRUE
            /\ senders' = 1
            /\ tasks' = (fs.root :> NewTask(fs.root))
       ELSE /\ pc' = "error"
            /\ UNCHANGED <<rx_alive, senders, tasks>>
  /\ UNCHANGED jsonargs_vars
  /\ UNCHANGED <<cli, fs, status, chan, taken, stdout, emitted, sent,
                 listed, failed>>

\* take(max_items) applied before filter: every received entry counts
recv_entry_take_first ==
  /\ pc = "loop" /\ take_has_room
  /\ chan /= <<>>
  /\ chan' = Tail(chan)
  /\ taken' = taken + 1
  /\ LET entry == Head(chan) IN
       IF ~filter_admits(entry)
       THEN UNCHANGED <<pc, rx_alive, stdout, emitted>>
       ELSE IF render(entry) = None
            THEN /\ pc' = "error"
                 /\ rx_alive' = FALSE
                 /\ UNCHANGED <<stdout, emitted>>
            ELSE /\ stdout' = Append(stdout, render(entry)[1])
                 /\ emitted' = Append(emitted, entry)
                 /\ UNCHANGED <<pc, rx_alive>>
  /\ UNCHANGED jsonargs_vars
  /\ UNCHANGED <<cli, fs, status, senders, tasks, sent, listed, failed>>

\* lines 104-116: one recv() of the iterator chain; a rejected entry is
\* dropped, an admitted one is yielded by take and printed
recv_entry ==
  /\ pc = "loop" /\ take_has_room
  /\ chan /= <<>>
  /\ chan' = Tail(chan)
  /\ LET entry == Head(chan) IN
       IF ~filter_admits(entry)
       THEN UNCHANGED <<pc, rx_alive, taken, stdout, emitted>>
       ELSE /\ taken' = taken + 1
            /\ IF render(entry) = None
               THEN /\ pc' = "error"
                    /\ rx_alive' = FALSE
                    /\ UNCHANGED <<stdout, emitted>>
               ELSE /\ stdout' = Append(stdout, render(entry)[1])
                    /\ emitted' = Append(emitted, entry)
                    /\ UNCHANGED <<pc, rx_alive>>
  /\ UNCHANGED jsonargs_vars
  /\ UNCHANGED <<cli, fs, status, senders, tasks, sent, listed, failed>>

\* recv() returns Err: buffer empty and every sender dropped; the loop
\* ends, the receiver is dropped, run returns Ok(())
end_of_stream ==
  /\ pc = "loop" /\ take_has_room
  /\ chan = <<>> /\ senders = 0
  /\ pc' = "done"
  /\ rx_alive' = FALSE
  /\ UNCHANGED jsonargs_vars
  /\ UNCHANGED <<cli, fs, status, chan, senders, tasks, taken, stdout,
                 emitted, sent, listed, failed>>

\* take(max_items) has yielded max_items items: next() returns None
\* without touching the channel; the loop ends, the receiver is dropped
take_exhausted ==
  /\ pc = "loop" /\ ~take_has_room
  /\ pc' = "done"
  /\ rx_alive' = FALSE
  /\ UNCHANGED jsonargs_vars
  /\ UNCHANGED <<cli, fs, status, chan, senders, tasks, taken, stdout,
                 emitted, sent, listed, failed>>

\* lines 185-191: main returns or panics with the error; the process ends
\* and with it every worker thread
main_exit ==
  /\ pc \in {"done", "error"}
  /\ pc' = "exited"
  /\ status' = IF pc = "done" THEN "success" ELSE "failure"
  /\ UNCHANGED jsonargs_vars
  /\ UNCHANGED <<cli, fs, chan, senders, rx_alive, tasks, taken, stdout,
                 emitted, sent, listed, failed>>

MainThread ==
  \/ run_start
  \/ recv_entry
  \/ end_of_stream
  \/ take_exhausted
  \/ main_exit

Next == MainThread \/ Producers

Spec == Init /\ [][Next]_vars

\* the scheduler runs every thread that can take a step
FairSpec == Spec /\ WF_vars(MainThread) /\ WF_vars(Producers)

\* ------------------------------------------------------------- jsonargs
\* `files` is not running
files_at_rest ==
  /\ cli = <<>>
  /\ fs = <<>>
  /\ pc = "exited"
  /\ status = "success"
  /\ chan = <<>>
  /\ senders = 0
  /\ rx_alive = FALSE
  /\ tasks = <<>>
  /\ taken = 0
  /\ stdout = <<>>
  /\ emitted = <<>>
  /\ sent = <<>>
  /\ listed = {}
  /\ failed = {}

LineKinds == {"json", "malformed"}

\* all sequences over S of length n
RECURSIVE SeqsOfLen(_, _)
SeqsOfLen(S, n) ==
  IF n = 0
  THEN {<<>>}
  ELSE {Append(q, x) : q \in SeqsOfLen(S, n - 1), x \in S}

\* lines 33-46: the arguments are parsed, childs is empty
JsonargsInit ==
  /\ files_at_rest
  /\ parallel \in BOOLEAN
  /\ stdin \in UNION {SeqsOfLen(LineKinds, n) : n \in 0..MaxLines}
  /\ line_no = 0
  /\ children = <<>>
  /\ childs = <<>>
  /\ joined = 0
  /\ main_pc = "read"

Running_children == {i \in 1..Len(children) : children[i].st = "running"}

\* lines 49-53: the next line does not decode or render: unwrap panics
\* and the process ends; child processes already started are not touched
line_panics ==
  /\ main_pc = "read" /\ line_no < Len(stdin)
  /\ stdin[line_no + 1] = "malformed"
  /\ main_pc' = "panicked"
  /\ line_no' = line_no + 1
  /\ UNCHANGED <<parallel, stdin, children, childs, joined>>
  /\ UNCHANGED files_vars

\* lines 55-60: Command::spawn fails and unwrap panics
spawn_panics ==
  /\ main_pc = "read" /\ line_no < Len(stdin)
  /\ stdin[line_no + 1] = "json"
  /\ main_pc' = "panicked"
  /\ line_no' = line_no + 1
  /\ UNCHANGED <<parallel, stdin, children, childs, joined>>
  /\ UNCHANGED files_vars

\* lines 49-65: a line is read, decoded and rendered and the child is
\* started; without --parallel main then blocks in child.wait(), with it a
\* thread that waits for the child is spawned and its handle pushed
spawn_child ==
  /\ main_pc = "read" /\ line_no < Len(stdin)
  /\ stdin[line_no + 1] = "json"
  /\ line_no' = line_no + 1
  /\ children' = Append(children, [line |-> line_no + 1, st |-> "running"])
  /\ IF ~parallel
     THEN main_pc' = "wait" /\ UNCHANGED childs
     ELSE /\ childs' = Append(childs,
                         [child |-> Len(children) + 1, st |-> "waiting"])
          /\ UNCHANGED main_pc
  /\ UNCHANGED <<parallel, stdin, joined>>
  /\ UNCHANGED files_vars

\* a child process ends by itself
child_exits ==
  /\ \E i \in Running_children :
       children' = [children EXCEPT ![i].st = "exited"]
  /\ UNCHANGED <<parallel, stdin, line_no, childs, joined, main_pc>>
  /\ UNCHANGED files_vars

\* child.wait() of line 62 returns in a loop that goes on unblocked
wait_child_nonblocking ==
  /\ main_pc = "wait"
  /\ main_pc' = "read"
  /\ UNCHANGED <<parallel, stdin, line_no, children, childs, joined>>
  /\ UNCHANGED files_vars

\* line 62: child.wait() returns once the child just started has exited
wait_child ==
  /\ main_pc = "wait"
  /\ children[Len(children)].st = "exited"
  /\ main_pc' = "read"
  /\ UNCHANGED <<parallel, stdin, line_no, children, childs, joined>>
  /\ UNCHANGED files_vars

\* line 64, the closure: child.wait() returns in a waiting thread
waiter_returns ==
  /\ main_pc /= "panicked"
  /\ \E k \in 1..Len(childs) :
       /\ childs[k].st = "waiting"
       /\ children[childs[k].child].st = "exited"
       /\ childs' = [childs EXCEPT ![k].st = "returned"]
  /\ UNCHANGED <<parallel, stdin, line_no, children, joined, main_pc>>
  /\ UNCHANGED files_vars

\* lines 49, 68: the input is exhausted, main goes on to join the threads
end_of_input ==
  /\ main_pc = "read" /\ line_no = Len(stdin)
  /\ main_pc' = "join"
  /\ UNCHANGED <<parallel, stdin, line_no, children, childs, joined>>
  /\ UNCHANGED files_vars

\* line 69: join returns once the next thread has returned
join_child ==
  /\ main_pc = "join" /\ joined < Len(childs)
  /\ childs[joined + 1].st = "returned"
  /\ joined' = joined + 1
  /\ UNCHANGED <<parallel, stdin, line_no, children, childs, main_pc>>
  /\ UNCHANGED files_vars

\* line 70: every handle is joined, main returns
main_returns ==
  /\ main_pc = "join" /\ joined = Len(childs)
  /\ main_pc' = "finished"
  /\ UNCHANGED <<parallel, stdin, line_no, children, childs, joined>>
  /\ UNCHANGED files_vars

JsonargsNext ==
  \/ line_panics
  \/ spawn_panics
  \/ spawn_child
  \/ child_exits
  \/ wait_child
  \/ waiter_returns
  \/ end_of_input
  \/ join_child
  \/ main_returns

JsonargsSpec == JsonargsInit /\ [][JsonargsNext]_vars

\* ------------------------------------------------- vocabulary of the claims
Range(s) == {s[i] : i \in 1..Len(s)}
Count(s, e) == Cardinality({i \in 1..Len(s) : s[i] = e})
Abs(r) == fs.root \o r

\* d is a proper ancestor directory of path
Under(path, d) == Len(d) < Len(path) /\ SubSeq(path, 1, Len(d)) = d

\* every filesystem entry below the root, as a path
AllEntries ==
  UNION {{Abs(Append(d, fs.list[d][i])) : i \in 1..Len(fs.list[d])} :
         d \in fs.dirs}

\* the directories below the root whose base name matches the ignore pattern
IgnoredDirs ==
  {e \in AllEntries : is_dir_path(e) /\ is_match(e, cli.ignore)}

\* all frames of all worker threads
Frames ==
  UNION {{tasks[t].stack[i] : i \in 1..Len(tasks[t].stack)} :
         t \in DOMAIN tasks}

Unbounded == cli.max_items = usize_max
NoListingFailure == \A d \in fs.dirs : fs.failAt[d] = None
AllTasksExited == \A t \in DOMAIN tasks : tasks[t].res /= "running"

\* C1: nothing inside a directory whose name matches the ignore pattern is
\* ever sent or printed, such a directory is never listed, and no
\* recursion or thread is started on anything inside it.
C1_IgnoredSubtreeAbsent ==
  \A d \in IgnoredDirs :
    /\ d \notin listed /\ d \notin failed
    /\ \A e \in Range(sent) \cup Range(chan) \cup Range(emitted) : ~Under(e, d)
    /\ \A t \in DOMAIN tasks : ~Under(t, d)
    /\ \A f \in Frames : ~Under(f.dir, d)

\* a finished run that handed a non-empty ignored directory to files_inner
C1_Witness ==
  /\ pc = "done" /\ senders = 0 /\ failed = {}
  /\ sent /= <<>>
  /\ \E d \in IgnoredDirs :
       /\ read_dir(d) /= <<>>
       /\ SubSeq(d, 1, Len(d) - 1) \in listed

\* C2: every entry sent on the result channel has a base name that does
\* not match the ignore pattern.
C2_SentNotIgnored == \A e \in Range(sent) : ~is_match(e, cli.ignore)

\* C4: the number of results printed never exceeds max_items.
C4_AtMostMaxItems ==
  /\ Len(emitted) <= cli.max_items
  /\ Len(stdout) <= cli.max_items

\* the limit is reached while a further entry waits in the channel
C4_Witness ==
  /\ cli.max_items = MaxLimit
  /\ Len(stdout) = MaxLimit
  /\ chan /= <<>>
  /\ filter_admits(Head(chan))

\* the entry's base name matches the configured match pattern
MatchesPattern(e) == cli.matchre /= None /\ is_match(e, cli.matchre)

\* the entry passes the match stage: no pattern, or its base name matches
MatchAdmits(e) == cli.matchre = None \/ is_match(e, cli.matchre)

\* the entry's own name matches the ignore pattern, or it lies inside a
\* directory (the root included) whose name matches it
PrunedByIgnore(e) ==
  \/ is_match(e, cli.ignore)
  \/ \E d \in IgnoredDirs \cup {fs.root} : is_match(d, cli.ignore) /\ Under(e, d)

\* the kind of entry the directories-only flag selects
SelectedKind(e) == is_dir_path(e) <=> cli.is_directory

\* every producer has ended and the consumer has taken all that was sent
RunComplete ==
  /\ pc \in {"loop", "done", "exited"}
  /\ tasks /= <<>>
  /\ AllTasksExited
  /\ chan = <<>>

\* the entries the consumer has received so far
Received == SubSeq(sent, 1, Len(sent) - Len(chan))

\* the directories whose listing fails when it is attempted
FailDirs == {Abs(d) : d \in {x \in fs.dirs : fs.failAt[x] /= None}}

\* the output set of a complete synchronous run without limit or failure
SyncOutputSet == {e \in Range(Walk(fs.root)) : MatchAdmits(e)}

\* the number of eligible entries: admitted by traversal and match filter
Eligible == Len(SelectSeq(Walk(fs.root), MatchAdmits))

\* C3 as stated: with an unbounded limit and no listing failure, every
\* filesystem entry under the root whose base name matches the match
\* pattern and that was not pruned by the ignore pattern is in the output
\* of the complete run exactly once.
C3_EveryMatchingEntryOnce ==
  (RunComplete /\ Unbounded /\ NoListingFailure) =>
    \A e \in AllEntries :
      (MatchesPattern(e) /\ ~PrunedByIgnore(e)) => Count(emitted, e) = 1

\* C3 amended: with an unbounded limit and no listing failure, every entry
\* of the kind the directories-only flag selects (non-directories when it
\* is off, directories when it is on) whose base name matches the match
\* pattern and that was not pruned by the ignore pattern eventually is in
\* the output, exactly once when the run has ended.
C3_EverySelectedMatchingEntryOnce ==
  [](  (pc = "loop" /\ Unbounded /\ NoListingFailure)
    => <>(/\ pc = "exited"
          /\ \A e \in AllEntries :
               (SelectedKind(e) /\ MatchesPattern(e) /\ ~PrunedByIgnore(e))
                 => Count(emitted, e) = 1))

\* a run has ended that printed matching entries, left out a matching
\* entry inside an ignored directory and met a directory whose own name
\* matches the pattern
C3_Witness ==
  /\ pc = "exited" /\ Unbounded /\ NoListingFailure
  /\ \E e \in AllEntries :
       SelectedKind(e) /\ MatchesPattern(e) /\ ~PrunedByIgnore(e)
         /\ Count(emitted, e) = 1
  /\ \E e \in AllEntries : MatchesPattern(e) /\ PrunedByIgnore(e)
  /\ \E e \in AllEntries : MatchesPattern(e) /\ ~SelectedKind(e)

\* C5: with no limit and no listing failure, the set of entries a complete
\* asynchronous run outputs equals the set a complete synchronous run
\* outputs, under every interleaving.
C5_SyncAsyncSameSet ==
  (RunComplete /\ Unbounded /\ NoListingFailure) =>
    Range(emitted) = SyncOutputSet

\* a complete asynchronous run of several threads whose output order is
\* not the order of the synchronous run
C5_Witness ==
  /\ RunComplete /\ Unbounded /\ NoListingFailure
  /\ cli.is_async
  /\ Cardinality(DOMAIN tasks) >= 3
  /\ Len(emitted) >= 2
  /\ emitted /= SelectSeq(Walk(fs.root), MatchAdmits)

\* C6: with an unbounded limit, in both modes and with or without a
\* listing failure, every producing thread eventually exits, the count of
\* live sender handles reaches zero and the consumer's loop ends.
C6_StreamTerminates ==
  [](  (pc = "loop" /\ Unbounded)
    => <>(/\ pc = "done"
          /\ AllTasksExited
          /\ senders = 0
          /\ chan = <<>>))

\* the loop has ended after a listing failure in a run of several threads
C6_Witness ==
  /\ pc = "done" /\ Unbounded
  /\ failed /= {}
  /\ Cardinality(DOMAIN tasks) >= 2
  /\ AllTasksExited /\ senders = 0
  /\ sent /= <<>>

\* the entries a traversal without failure sends that do not lie inside a
\* directory whose listing fails
OutsideFailedSubtrees ==
  {e \in Range(Walk(fs.root)) : \A D \in FailDirs : ~Under(e, D)}

\* C7 as stated: in asynchronous mode, when the listing of a subdirectory
\* fails, every admissible entry outside that subdirectory's subtree has
\* been sent when the run has ended.
C7_SiblingsStillSent ==
  (pc = "exited" /\ cli.is_async /\ failed /= {} /\ fs.root \notin failed) =>
    OutsideFailedSubtrees \subseteq Range(sent)

\* C7 amended: in asynchronous mode with an unbounded limit, when the
\* listing of a subdirectory fails, every admissible entry outside that
\* subdirectory's subtree is still sent and the stream still terminates.
C7_SiblingsStillSentUnbounded ==
  [](  (pc = "loop" /\ cli.is_async /\ Unbounded /\ fs.root \notin FailDirs)
    => <>(/\ pc = "done"
          /\ senders = 0
          /\ OutsideFailedSubtrees \subseteq Range(sent)))

\* the stream has ended, the listing of a subdirectory has failed and an
\* entry inside a sibling directory of it has been sent
C7_Witness ==
  /\ pc = "done" /\ cli.is_async /\ Unbounded
  /\ \E D \in failed, S \in DOMAIN tasks :
       /\ D /= fs.root /\ S /= D /\ Len(S) = Len(D)
       /\ SubSeq(S, 1, Len(S) - 1) = SubSeq(D, 1, Len(D) - 1)
       /\ \E e \in Range(sent) : Under(e, S)

\* C8: in synchronous mode a directory-listing failure makes the process
\* end with a failure status.
C8_SyncFailureIsFatal ==
  (pc = "exited" /\ ~cli.is_async /\ failed /= {}) => status = "failure"

\* C9: with no listing failure the run eventually prints exactly
\* min(max_items, E) results and then stops, E being the number of
\* eligible entries.
C9_EmitsMinOfLimitAndEligible ==
  [](  (pc = "loop" /\ NoListingFailure)
    => <>(/\ pc = "exited"
          /\ Len(stdout) = Min(cli.max_items, Eligible)
          /\ Len(emitted) = Len(stdout)))

\* a run over at least 5 eligible entries with max_items = MaxLimit (1)
\* has ended
C9_Witness ==
  /\ pc = "exited" /\ NoListingFailure
  /\ cli.max_items = MaxLimit
  /\ Eligible >= 5
  /\ Len(stdout) = MaxLimit

\* C10: the printed entries are exactly the received entries that the
\* match stage admits: with a pattern every printed entry's base name
\* matches it, without a pattern every received entry is printed.
C10_FilterAdmitsIffMatch ==
  /\ emitted = SelectSeq(Received, MatchAdmits)
  /\ cli.matchre /= None => \A e \in Range(emitted) : is_match(e, cli.matchre)
  /\ cli.matchre = None => Len(emitted) = Len(Received)

\* with the ignore pattern disabled and a match pattern set, .git/config
\* has been received and dropped while a matching entry has been printed
C10_Witness ==
  /\ cli.ignore = None /\ cli.matchre /= None
  /\ Abs(<<n_git, n_config>>) \in Range(Received)
  /\ Abs(<<n_git, n_config>>) \notin Range(emitted)
  /\ emitted /= <<>>

\* C11: in synchronous mode, once a directory listing has failed, the
\* single worker thread has exited with every enclosing call unwound and
\* every sender handle released (the stream ends), and no entry is sent
\* any more.
C11_SyncFailureHaltsTraversal ==
  /\ [](  (~cli.is_async /\ failed /= {})
        => /\ DOMAIN tasks = {fs.root}
           /\ tasks[fs.root].res = "err"
           /\ tasks[fs.root].stack = <<>>
           /\ senders = 0)
  /\ [][(~cli.is_async /\ failed /= {}) => sent' = sent]_vars

\* a synchronous run has ended after the listing of a subdirectory failed,
\* and an entry outside that subdirectory, which the walk reaches after
\* it, was never sent
C11_Witness ==
  /\ pc = "done" /\ ~cli.is_async
  /\ \E D \in failed :
       /\ D /= fs.root
       /\ \E e \in Range(Walk(fs.root)) :
            ~Under(e, D) /\ e \notin Range(sent)
  /\ sent /= <<>>

\* the consumer's recv() has returned Err: the loop ended although take
\* still had room
EosObserved ==
  /\ pc = "done" \/ (pc = "exited" /\ status = "success")
  /\ taken < cli.max_items

\* the sender handles the live threads own
RECURSIVE HandlesOf(_)
HandlesOf(T) ==
  IF T = {}
  THEN 0
  ELSE LET t == CHOOSE x \in T : TRUE IN
       (IF Running(t) THEN Handles(t) ELSE 0) + HandlesOf(T \ {t})

\* C12: the consumer observes end-of-stream only when no producing thread
\* is alive any more and every sender handle is released; the count of
\* live handles is at every moment the number of handles the live threads
\* own, so it is not zero while a thread still has a subtree to walk; and
\* after an end-of-stream without listing failure nothing admissible is
\* unsent.
C12_EosOnlyAfterLastHandle ==
  /\ tasks /= <<>> => senders = HandlesOf(DOMAIN tasks)
  /\ EosObserved =>
       /\ AllTasksExited
       /\ senders = 0
       /\ NoListingFailure => Range(Walk(fs.root)) \subseteq Range(sent)

\* end-of-stream observed in an asynchronous run of at least three threads
C12_Witness ==
  /\ EosObserved /\ cli.is_async
  /\ Cardinality(DOMAIN tasks) >= 3
  /\ Len(sent) >= 2

\* C13: the channel never buffers more than 20 entries, and while it
\* holds 20 no send adds an entry: the next change of the buffer is a
\* receive.
C13_ChannelBounded ==
  /\ [](Len(chan) <= ChanCap)
  /\ [][Len(chan) = ChanCap => (sent' = sent /\ Len(chan') <= Len(chan))]_vars

\* the buffer is full and two producers are blocked at their sends
C13_Witness ==
  /\ Len(chan) = ChanCap
  /\ rx_alive
  /\ Cardinality({t \in DOMAIN tasks : AtSend(t)}) >= 2

\* the consumer has left its loop because take(max_items) was exhausted
StoppedAtLimit == pc \in {"done", "exited"} /\ taken >= cli.max_items

\* C14: after the consumer has emitted max_items results and stopped, no
\* producer is terminated by a failed send: a thread that is at a send
\* completes it or stays at it.
C14_ProducersNotTerminated ==
  [][StoppedAtLimit =>
       \A t \in DOMAIN tasks :
         (Running(t) /\ AtSend(t)) => tasks'[t].res /= "panic"]_vars

\* C15: the consumer never yields more than max_items entries and, once it
\* has printed max_items entries, never takes an entry from the channel
\* again (with max_items = 0 it never takes one); the entries counted
\* toward the limit are exactly the received entries the match filter
\* admits, the rejected ones are received and dropped.
C15_NoReceiveAfterLimit ==
  /\ [](/\ taken = Len(SelectSeq(Received, MatchAdmits))
        /\ taken <= cli.max_items
        /\ cli.max_items = 0 => Received = <<>>)
  /\ [][Len(emitted) >= cli.max_items => Len(chan') >= Len(chan)]_vars

\* the consumer has stopped at the limit after it had received and dropped
\* a rejected entry, and an entry is left in the channel
C15_Witness ==
  /\ pc = "done"
  /\ cli.max_items = MaxLimit /\ Len(emitted) = MaxLimit
  /\ Len(Received) > Len(emitted)
  /\ chan /= <<>>

\* the position of a name in the listing of directory d (relative path)
Pos(d, name) == CHOOSE i \in 1..Len(fs.list[d]) : fs.list[d][i] = name

\* a relative path as the listing positions of its components
IdxPath(r) == [k \in 1..Len(r) |-> Pos(SubSeq(r, 1, k - 1), r[k])]

\* a is a proper prefix of b, or smaller at the first place they differ
LexLess(a, b) ==
  \/ Len(a) < Len(b) /\ SubSeq(b, 1, Len(a)) = a
  \/ \E k \in 1..Min(Len(a), Len(b)) :
       SubSeq(a, 1, k - 1) = SubSeq(b, 1, k - 1) /\ a[k] < b[k]

\* depth-first order of two entries: a directory before its subtree, the
\* subtree of a child before every later child of the same listing
DfsBefore(e1, e2) == LexLess(IdxPath(rel(e1)), IdxPath(rel(e2)))

InDfsOrder(s) == \A i \in 1..(Len(s) - 1) : DfsBefore(s[i], s[i + 1])

\* C16: in synchronous mode the entries are sent, and printed, in the
\* depth-first order of the directory listings; the channel is first-in
\* first-out: it holds the entries sent last, in the order sent.
C16_SyncDepthFirstOrder ==
  /\ chan = SubSeq(sent, Len(sent) - Len(chan) + 1, Len(sent))
  /\ ~cli.is_async => InDfsOrder(sent) /\ InDfsOrder(emitted)

\* the scenario: a.txt, then sub/b.txt, printed by a synchronous run that
\* skipped .git between them
C16_Witness ==
  /\ ~cli.is_async /\ pc = "done"
  /\ cli.ignore /= None
  /\ fs.list[<<>>] = <<n_a_txt, n_git, n_sub>>
  /\ emitted = <<Abs(<<n_a_txt>>), Abs(<<n_sub, n_b_txt>>)>>

\* the directories the walk has to list: the root and every directory
\* below it, unless pruned by the ignore pattern
DirsToList ==
  {e \in AllEntries \cup {fs.root} : is_dir_path(e) /\ ~PrunedByIgnore(e)}

\* C17: with directories-only off every entry sent is a non-directory,
\* with directories-only on every entry sent is a directory; in both
\* cases, once every thread has returned Ok, every directory that is not
\* pruned has been listed.
C17_EmissionByKind ==
  /\ \A e \in Range(sent) : is_dir_path(e) <=> cli.is_directory
  /\ (tasks /= <<>> /\ \A t \in DOMAIN tasks : tasks[t].res = "ok")
       => listed = DirsToList

\* a directories-only walk has ended: directories were sent, and a
\* directory holding only a plain file was listed
C17_Witness ==
  /\ cli.is_directory
  /\ tasks /= <<>> /\ \A t \in DOMAIN tasks : tasks[t].res = "ok"
  /\ Len(sent) >= 2
  /\ \E d \in listed : d /= fs.root /\ read_dir(d) = <<n_b_txt>>

Parent(path) == SubSeq(path, 1, Len(path) - 1)

\* the i-th child of directory dir
ChildAt(dir, i) == Append(dir, read_dir(dir)[i])

\* a step of files_inner by thread t
StepOf(t) ==
  \/ files_inner_enter(t)
  \/ loop_end(t)
  \/ entry_error(t)
  \/ visit_file(t)
  \/ clone_tx(t)
  \/ emit_dir_and_recurse(t)
  \/ send_disconnected(t)

\* t is at a send and the buffer is full
BlockedOnFullChannel(t) == AtSend(t) /\ rx_alive /\ Len(chan) = ChanCap

\* C18: in synchronous mode the thread started on the root is the only
\* worker thread. In asynchronous mode no thread recurses (its stack has
\* one frame at most); the threads besides the root's are exactly the
\* directory children the loops have passed: a thread whose loop is at
\* position i has spawned one for every directory child before i and for
\* none from i on, a thread that returned Ok for every directory child;
\* and a running thread is never waiting for anything but room in the
\* channel.
C18_TaskPerDirectory ==
  /\ ~cli.is_async => DOMAIN tasks \subseteq {fs.root}
  /\ cli.is_async =>
       /\ \A t \in DOMAIN tasks :
            /\ Len(tasks[t].stack) <= 1
            /\ Running(t) => Top(t).dir = t
            /\ t /= fs.root =>
                 /\ is_dir_path(t)
                 /\ Parent(t) \in listed
                 /\ Parent(t) \in DOMAIN tasks
       /\ \A t \in DOMAIN tasks :
            (Running(t) /\ Top(t).ph /= "enter") =>
              \A k \in 1..Len(read_dir(t)) :
                is_dir_path(ChildAt(t, k)) =>
                  (ChildAt(t, k) \in DOMAIN tasks <=> k < Top(t).idx)
       /\ \A t \in DOMAIN tasks :
            (tasks[t].res = "ok" /\ t \in listed) =>
              \A k \in 1..Len(read_dir(t)) :
                is_dir_path(ChildAt(t, k)) => ChildAt(t, k) \in DOMAIN tasks
  /\ \A t \in DOMAIN tasks :
       (ProcessAlive /\ Running(t)) =>
         (ENABLED StepOf(t)) \/ BlockedOnFullChannel(t)

\* an asynchronous run in which a thread has returned while a thread it
\* spawned is still running, and a thread spawned by that one exists
C18_Witness ==
  /\ cli.is_async
  /\ \E t \in DOMAIN tasks :
       /\ t /= fs.root /\ Running(t)
       /\ tasks[Parent(t)].res = "ok"
       /\ \E u \in DOMAIN tasks : Parent(u) = t

\* C19: when the base name of the traversal root matches the ignore
\* pattern, in both modes nothing is listed, nothing is sent or printed,
\* no thread is spawned, and the thread started on the root returns at
\* once, releasing the only sender handle: the consumer's loop can end.
C19_IgnoredRootYieldsNothing ==
  is_match(fs.root, cli.ignore) =>
    /\ listed = {} /\ failed = {}
    /\ sent = <<>> /\ chan = <<>> /\ emitted = <<>> /\ stdout = <<>>
    /\ DOMAIN tasks \subseteq {fs.root}
    /\ tasks /= <<>> =>
         \/ Running(fs.root) /\ Top(fs.root).ph = "enter" /\ senders = 1
         \/ tasks[fs.root].res = "ok" /\ senders = 0
    /\ (pc = "loop" /\ ~Running(fs.root)) =>
         ENABLED (end_of_stream \/ take_exhausted)

\* the stream over a non-empty tree whose root is named .git has ended
\* by end-of-stream
C19_Witness ==
  /\ is_match(fs.root, cli.ignore)
  /\ fs.list[<<>>] /= <<>>
  /\ EosObserved
  /\ tasks[fs.root].res = "ok"

\* the dispatcher without --parallel: children one at a time, in line order
SequentialDispatch ==
  ~parallel =>
    /\ Cardinality(Running_children) <= 1
    /\ \A i \in 1..(Len(children) - 1) : children[i].st = "exited"
    /\ main_pc = "read" => Running_children = {}

\* a child is started for every line read, in line order, and with
\* --parallel reading the next line does not wait for a child
ChildPerLine ==
  /\ \A i \in 1..Len(children) : children[i].line = i
  /\ main_pc \in {"read", "wait", "join", "finished"} =>
       Len(children) = line_no
  /\ (parallel /\ main_pc = "read" /\ line_no < Len(stdin)) =>
       ENABLED (spawn_child \/ line_panics)

\* C20 as stated: without --parallel at most one child runs at a time and
\* each is started only after the previous one has exited, with --parallel
\* a child is started per line without waiting, and in both cases main has
\* not ended, in whatever way, while a started child is still running.
C20_MainOutlivesChildren ==
  /\ SequentialDispatch
  /\ ChildPerLine
  /\ main_pc \in {"finished", "panicked"} => Running_children = {}

\* C20 amended: as above, but main does not return while a started child
\* is still running; when main panics, without --parallel no child is
\* running, with --parallel children started earlier may still be running.
C20_MainReturnsAfterChildren ==
  /\ SequentialDispatch
  /\ ChildPerLine
  /\ main_pc = "finished" => Running_children = {}
  /\ (main_pc = "panicked" /\ ~parallel) => Running_children = {}

\* main has returned from a --parallel run that started several children
C20_Witness ==
  /\ parallel /\ main_pc = "finished"
  /\ Len(children) >= 2
  /\ joined = Len(children)

TypeOK ==
  /\ pc \in {"start", "loop", "done", "error", "exited"}
  /\ status \in {"running", "success", "failure"}
  /\ senders \in Nat
  /\ taken \in Nat
  /\ Len(chan) <= ChanCap

====
